---- MODULE Spec2Model ----
(***************************************************************************)
(* Model of the agent composition core of lazaro:                          *)
(*   src/agents/base/base_agent.py  (BaseAgent: labelled callback dicts)   *)
(*   src/agents/base/agent.py       (Agent: callback lists, linking,       *)
(*                                   persistence)                          *)
(* Callbacks, model wrappers, the environment and the abstract methods     *)
(* preprocess / infer / learn are opaque: each invocation draws its        *)
(* outcome (a return value or a raised exception) from a small set.        *)
(***************************************************************************)
EXTENDS Integers, Sequences, FiniteSets, TLC

VARIABLES
    cls,                 \* which class the object is: "BaseAgent" or "Agent"
    explorer,            \* Agent.explorer, by type name ("None" for None)
    save_progress,       \* Agent.save_progress
    tensor_board_log,    \* Agent.tensor_board_log
    step_callbacks,      \* registry: sequence of [label, cbk], insertion order
    progress_callbacks,  \* registry
    learning_callbacks,  \* registry
    model_wrappers,      \* list of model wrappers
    last,                \* what the last registry operation did and returned
    first_registered,    \* history: per registry, the labels by first registration
    last_registered,     \* history: per registry, the callbacks now registered,
                         \*          by the time each was registered
    replay_buffer,       \* the replay buffer object
    pc,                  \* position inside __init__ ("init") or health_check
    s,                   \* health_check's local s
    batch,               \* health_check's local batch
    exc,                 \* exception that left health_check
    thrown,              \* history: what a collaborator of health_check raised
    invoked,             \* collaborators health_check has called in this call
    log,                 \* log.error messages of this health_check call
    rp_at_call,          \* the replay buffer as it was when health_check began
    save_path,           \* Agent.save_path
    summary_writer,      \* Agent.summary_writer
    hp_gamma,            \* hp.gamma, a fraction <<numerator, denominator>>
    gamma,               \* Agent.gamma
    replay_buffer_gamma, \* the replay buffer's own gamma: <<>> until set_gamma
    reset_noise_every,   \* explorer.ep.reset_noise_every
    layers               \* the layers of the agent's networks, in modules() order

cbvars == <<step_callbacks, progress_callbacks, learning_callbacks, model_wrappers, last,
           first_registered, last_registered>>
cfgvars == <<cls, explorer, save_progress, tensor_board_log>>
hcvars == <<replay_buffer, pc, s, batch, exc, thrown, invoked, log, rp_at_call, save_path, summary_writer>>
hpvars == <<hp_gamma, gamma, replay_buffer_gamma, reset_noise_every, layers>>
vars == <<cfgvars, cbvars, hcvars, hpvars>>

(***************************************************************************)
(* Bounds                                                                  *)
(***************************************************************************)
MaxCallbacks == 2        \* user callbacks and wrappers registered at the same time
MaxLen == 3              \* largest max_len of a replay buffer
MaxNStep == 2            \* largest n_step of an n-step replay buffer
MaxPre == 2              \* entries a buffer may hold before health_check
MaxEvery == 3            \* largest reset_noise_every
MaxStep == 4             \* largest TrainingStep.step
MaxLayers == 2           \* most layers of an agent's networks
MaxResets == 2           \* most noise resets of one layer
MaxBatch == 2            \* longest batch, x and y of a LearningStep

Classes == {"BaseAgent", "Agent"}
Explorers == {"None", "NoExplorer", "RandomExplorer", "NoisyExplorer"}
ReplayBuffers == {"RandomReplayBuffer", "PrioritizedReplayBuffer",
                  "NStepsRandomReplayBuffer", "NStepsPrioritizedReplayBuffer"}
Labels == {"a", "b"}
UserCbks == {"f", "g"}
UserWrappers == {"w1", "w2"}
NoLabel == "-"           \* Agent's registries are plain lists: no label

\* Python values a callback may return, and the raise outcome.
RetVals == {"False", "True", "None", "1"}
Outcomes == RetVals \cup {"raise"}
Truthy(v) == v \in {"True", "1"}

Entry(label, cbk) == [label |-> label, cbk |-> cbk]

(***************************************************************************)
(* Construction-time linking of Agent                                      *)
(***************************************************************************)
IsPrioritized(rb) == rb \in {"PrioritizedReplayBuffer", "NStepsPrioritizedReplayBuffer"}
IsNSteps(rb) == rb \in {"NStepsPrioritizedReplayBuffer", "NStepsRandomReplayBuffer"}

EmptyRegistries == [step |-> <<>>, progress |-> <<>>, learn |-> <<>>, wrappers |-> <<>>]

ListAppend(reg, cbk) == Append(reg, Entry(NoLabel, cbk))

\* Mutant: the type test is exact, "type(self.replay_buffer) is
\* PrioritizedReplayBuffer", so the n-step prioritized buffer is not linked.
link_replay_buffer_exact(R, rb, tb) ==
    IF rb = "PrioritizedReplayBuffer"
    THEN [R EXCEPT
            !.learn = ListAppend(@, "prioritized_replay_buffer_update_priorities"),
            !.step = ListAppend(@, "prioritized_replay_buffer_increase_beta"),
            !.progress = IF tb
                         THEN ListAppend(@, "tensorboard_log_prioritized_replay_buffer_add_beta")
                         ELSE @]
    ELSE R

link_replay_buffer(R, rb, tb) ==
    IF IsPrioritized(rb)
    THEN [R EXCEPT
            !.learn = ListAppend(@, "prioritized_replay_buffer_update_priorities"),
            !.step = ListAppend(@, "prioritized_replay_buffer_increase_beta"),
            !.progress = IF tb
                         THEN ListAppend(@, "tensorboard_log_prioritized_replay_buffer_add_beta")
                         ELSE @]
    ELSE R

\* Mutant: only the noisy explorer is tested for, and every other explorer
\* is linked as a random one.
link_explorer_default(R, ex, tb) ==
    IF ex = "NoisyExplorer"
    THEN [R EXCEPT
            !.wrappers = Append(@, "noisy_linear_model_factory"),
            !.step = ListAppend(@, "noisy_explorer_reset_noise")]
    ELSE [R EXCEPT
            !.step = ListAppend(@, "random_explorer_decay_epsilon"),
            !.progress = IF tb
                         THEN ListAppend(@, "tensorboard_log_random_explorer_add_epsilon")
                         ELSE @]

link_explorer(R, ex, tb) ==
    IF ex = "RandomExplorer"
    THEN [R EXCEPT
            !.step = ListAppend(@, "random_explorer_decay_epsilon"),
            !.progress = IF tb
                         THEN ListAppend(@, "tensorboard_log_random_explorer_add_epsilon")
                         ELSE @]
    ELSE IF ex = "NoisyExplorer"
    THEN [R EXCEPT
            !.wrappers = Append(@, "noisy_linear_model_factory"),
            !.step = ListAppend(@, "noisy_explorer_reset_noise")]
    ELSE R

link_saver(R, sp) ==
    IF sp
    THEN [R EXCEPT !.progress = ListAppend(@, "save_training_progress_callback")]
    ELSE R

link_tensorboard(R, tb) ==
    IF tb
    THEN [R EXCEPT
            !.progress = ListAppend(@, "tensorboard_log_training_progress"),
            !.wrappers = Append(@, "model_wrapper")]
    ELSE R

\* Agent.__init__: registries empty, then the four links in this order.
\* Mutant: the four links are made in the opposite order.
AgentLinked_reversed(rb, ex, sp, tb) ==
    link_replay_buffer(link_explorer(link_saver(link_tensorboard(EmptyRegistries, tb), sp), ex, tb), rb, tb)

AgentLinked(rb, ex, sp, tb) ==
    link_tensorboard(link_saver(link_explorer(link_replay_buffer(EmptyRegistries, rb, tb), ex, tb), sp), tb)

LinkedProgressCbks == {"tensorboard_log_prioritized_replay_buffer_add_beta",
                       "tensorboard_log_random_explorer_add_epsilon",
                       "save_training_progress_callback",
                       "tensorboard_log_training_progress"}

NoLast == [op |-> "none", label |-> NoLabel, cbk |-> "none", warning |-> FALSE,
           invoked |-> <<>>, rets |-> <<>>, result |-> "None",
           calls |-> <<>>, model |-> <<>>, arg |-> <<>>]

(***************************************************************************)
(* Callback registries                                                     *)
(***************************************************************************)
HasLabel(reg, label) == \E i \in 1..Len(reg) : reg[i].label = label

\* Mutant: the registry behaves like a list, every registration is appended.
DictSet_append(reg, label, cbk) == Append(reg, Entry(label, cbk))

\* Mutant: an existing key is deleted and set again, so it moves to the end.
DictSet_moves(reg, label, cbk) ==
    Append(SelectSeq(reg, LAMBDA e : e.label # label), Entry(label, cbk))

\* Python dict item assignment: an existing key keeps its position and gets
\* the new value, a new key goes last.
DictSet(reg, label, cbk) ==
    IF HasLabel(reg, label)
    THEN [i \in 1..Len(reg) |-> IF reg[i].label = label THEN Entry(label, cbk) ELSE reg[i]]
    ELSE Append(reg, Entry(label, cbk))

UserEntries(reg) == Cardinality({i \in 1..Len(reg) : reg[i].cbk \in UserCbks})
UserWrapperCount == Cardinality({i \in 1..Len(model_wrappers) : model_wrappers[i] \in UserWrappers})
UserCount == UserEntries(step_callbacks) + UserEntries(progress_callbacks)
               + UserEntries(learning_callbacks) + UserWrapperCount

\* History of the registrations of registry k ("step", "progress", "learn").
NoteFirst(k, label) ==
    first_registered' =
        [first_registered EXCEPT
            ![k] = IF \E i \in 1..Len(@) : @[i] = label THEN @ ELSE Append(@, label)]

NoteDictAdd(k, label, cbk) ==
    /\ NoteFirst(k, label)
    /\ last_registered' =
        [last_registered EXCEPT
            ![k] = Append(SelectSeq(@, LAMBDA e : e.label # label), Entry(label, cbk))]

NoteListAdd(k, cbk) ==
    /\ UNCHANGED first_registered
    /\ last_registered' = [last_registered EXCEPT ![k] = Append(@, Entry(NoLabel, cbk))]

AddLast(op, label, cbk, warning) ==
    [NoLast EXCEPT !.op = op, !.label = label, !.cbk = cbk, !.warning = warning]

add_step_callback(label, cbk) ==
    /\ cls = "BaseAgent"
    /\ HasLabel(step_callbacks, label) \/ UserCount < MaxCallbacks
    /\ step_callbacks' = DictSet(step_callbacks, label, cbk)
    /\ last' = AddLast("add_step_callback", label, cbk, HasLabel(step_callbacks, label))
    /\ NoteDictAdd("step", label, cbk)
    /\ UNCHANGED <<progress_callbacks, learning_callbacks, model_wrappers>>
    /\ UNCHANGED <<cfgvars, hcvars, hpvars>>

\* Mutant: the progress registration is also written to the step registry.
add_progress_callback_leaks(label, cbk) ==
    /\ cls = "BaseAgent"
    /\ HasLabel(progress_callbacks, label) \/ UserCount < MaxCallbacks
    /\ progress_callbacks' = DictSet(progress_callbacks, label, cbk)
    /\ step_callbacks' = DictSet(step_callbacks, label, cbk)
    /\ last' = AddLast("add_progress_callback", label, cbk, HasLabel(progress_callbacks, label))
    /\ NoteDictAdd("progress", label, cbk)
    /\ UNCHANGED <<learning_callbacks, model_wrappers>>
    /\ UNCHANGED <<cfgvars, hcvars, hpvars>>

add_progress_callback(label, cbk) ==
    /\ cls = "BaseAgent"
    /\ HasLabel(progress_callbacks, label) \/ UserCount < MaxCallbacks
    /\ progress_callbacks' = DictSet(progress_callbacks, label, cbk)
    /\ last' = AddLast("add_progress_callback", label, cbk, HasLabel(progress_callbacks, label))
    /\ NoteDictAdd("progress", label, cbk)
    /\ UNCHANGED <<step_callbacks, learning_callbacks, model_wrappers>>
    /\ UNCHANGED <<cfgvars, hcvars, hpvars>>

add_learn_callback(label, cbk) ==
    /\ cls = "BaseAgent"
    /\ HasLabel(learning_callbacks, label) \/ UserCount < MaxCallbacks
    /\ learning_callbacks' = DictSet(learning_callbacks, label, cbk)
    /\ last' = AddLast("add_learn_callback", label, cbk, HasLabel(learning_callbacks, label))
    /\ NoteDictAdd("learn", label, cbk)
    /\ UNCHANGED <<step_callbacks, progress_callbacks, model_wrappers>>
    /\ UNCHANGED <<cfgvars, hcvars, hpvars>>

Agent_add_step_callback(cbk) ==
    /\ cls = "Agent"
    /\ UserCount < MaxCallbacks
    /\ step_callbacks' = ListAppend(step_callbacks, cbk)
    /\ last' = AddLast("add_step_callback", NoLabel, cbk, FALSE)
    /\ NoteListAdd("step", cbk)
    /\ UNCHANGED <<progress_callbacks, learning_callbacks, model_wrappers>>
    /\ UNCHANGED <<cfgvars, hcvars, hpvars>>

Agent_add_progress_callback(cbk) ==
    /\ cls = "Agent"
    /\ UserCount < MaxCallbacks
    /\ progress_callbacks' = ListAppend(progress_callbacks, cbk)
    /\ last' = AddLast("add_progress_callback", NoLabel, cbk, FALSE)
    /\ NoteListAdd("progress", cbk)
    /\ UNCHANGED <<step_callbacks, learning_callbacks, model_wrappers>>
    /\ UNCHANGED <<cfgvars, hcvars, hpvars>>

Agent_add_learn_callback(cbk) ==
    /\ cls = "Agent"
    /\ UserCount < MaxCallbacks
    /\ learning_callbacks' = ListAppend(learning_callbacks, cbk)
    /\ last' = AddLast("add_learn_callback", NoLabel, cbk, FALSE)
    /\ NoteListAdd("learn", cbk)
    /\ UNCHANGED <<step_callbacks, progress_callbacks, model_wrappers>>
    /\ UNCHANGED <<cfgvars, hcvars, hpvars>>

\* self.model_wrappers.append(wrapper)
model_wrappers_append(w) ==
    /\ UserCount < MaxCallbacks
    /\ model_wrappers' = Append(model_wrappers, w)
    /\ last' = AddLast("model_wrappers_append", NoLabel, w, FALSE)
    /\ UNCHANGED <<step_callbacks, progress_callbacks, learning_callbacks>>
    /\ UNCHANGED <<first_registered, last_registered>>
    /\ UNCHANGED <<cfgvars, hcvars, hpvars>>

\* Mutant: the checkpoint saver answers True once it has written.
CallbackOutcomes_saver(op, cbk) ==
    IF op = "call_progress_callbacks"
    THEN IF cbk = "save_training_progress_callback" THEN {"True", "raise"}
         ELSE IF cbk \in LinkedProgressCbks THEN {"False", "raise"} ELSE Outcomes
    ELSE {"None", "raise"}

\* What one invocation of a callback may do.  The callbacks Agent links by
\* itself end in "return False" (progress) or fall off the end (step, learn);
\* a user progress callback may return anything; all of them may raise.
CallbackOutcomes(op, cbk) ==
    IF op = "call_progress_callbacks"
    THEN IF cbk \in LinkedProgressCbks THEN {"False", "raise"} ELSE Outcomes
    ELSE {"None", "raise"}

\* The outcomes one call of a registry's loop draws, callback by callback;
\* the loop ends at the first raise, so nothing is drawn after it.
RECURSIVE OutcomesFrom(_, _, _)
OutcomesFrom(op, reg, i) ==
    IF i > Len(reg) THEN {<<>>}
    ELSE LET here == CallbackOutcomes(op, reg[i].cbk)
         IN {<<"raise">> : o \in here \cap {"raise"}}
            \cup {<<o>> \o rest : o \in here \ {"raise"}, rest \in OutcomesFrom(op, reg, i + 1)}

OutcomeChoices(op, reg) == OutcomesFrom(op, reg, 1)

Called(acc, entry, ret) ==
    [acc EXCEPT !.invoked = Append(@, entry), !.rets = Append(@, ret)]

\* Mutant: the registry is walked from its end.
\* Mutant: every callback is called inside its own try/except, so a raise is
\* recorded and the loop goes on to the callbacks after it.
RECURSIVE CallLoop_isolated(_, _, _, _)
CallLoop_isolated(reg, outs, i, acc) ==
    IF i > Len(reg) THEN acc
    ELSE CallLoop_isolated(reg, outs, i + 1,
                           Called(acc, reg[i], IF i <= Len(outs) THEN outs[i] ELSE "None"))

RECURSIVE CallLoop_reversed(_, _, _, _)
CallLoop_reversed(reg, outs, i, acc) ==
    IF i > Len(reg) THEN acc
    ELSE IF outs[i] = "raise"
    THEN [Called(acc, reg[Len(reg) + 1 - i], "raise") EXCEPT !.result = "raised"]
    ELSE CallLoop_reversed(reg, outs, i + 1, Called(acc, reg[Len(reg) + 1 - i], outs[i]))

\* for label, cbk in registry.items(): cbk(arg)
RECURSIVE CallLoop(_, _, _, _)
CallLoop(reg, outs, i, acc) ==
    IF i > Len(reg) THEN acc
    ELSE IF outs[i] = "raise"
    THEN [Called(acc, reg[i], "raise") EXCEPT !.result = "raised"]
    ELSE CallLoop(reg, outs, i + 1, Called(acc, reg[i], outs[i]))

\* Mutant: must_exit = may_exit, the last callback decides.
MustExit_last(must_exit, may_exit) == Truthy(may_exit)

\* if may_exit: must_exit = True
MustExit(must_exit, may_exit) == IF Truthy(may_exit) THEN TRUE ELSE must_exit

PyBool(b) == IF b THEN "True" ELSE "False"

\* Mutant: the loop breaks at the first callback that asks to stop.
RECURSIVE ProgressLoop_break(_, _, _, _, _)
ProgressLoop_break(reg, outs, i, must_exit, acc) ==
    IF i > Len(reg) \/ must_exit THEN [acc EXCEPT !.result = PyBool(must_exit)]
    ELSE IF outs[i] = "raise"
    THEN [Called(acc, reg[i], "raise") EXCEPT !.result = "raised"]
    ELSE ProgressLoop_break(reg, outs, i + 1, MustExit(must_exit, outs[i]),
                            Called(acc, reg[i], outs[i]))

\* must_exit = False; for ...: may_exit = cbk(tp); ...; return must_exit
RECURSIVE ProgressLoop(_, _, _, _, _)
ProgressLoop(reg, outs, i, must_exit, acc) ==
    IF i > Len(reg) THEN [acc EXCEPT !.result = PyBool(must_exit)]
    ELSE IF outs[i] = "raise"
    THEN [Called(acc, reg[i], "raise") EXCEPT !.result = "raised"]
    ELSE ProgressLoop(reg, outs, i + 1, MustExit(must_exit, outs[i]),
                      Called(acc, reg[i], outs[i]))

call_step_callbacks(outs) ==
    /\ last' = CallLoop(step_callbacks, outs, 1, [NoLast EXCEPT !.op = "call_step_callbacks"])
    /\ UNCHANGED <<step_callbacks, progress_callbacks, learning_callbacks, model_wrappers>>
    /\ UNCHANGED <<first_registered, last_registered>>
    /\ UNCHANGED <<cfgvars, hcvars, hpvars>>

call_progress_callbacks(outs) ==
    /\ last' = ProgressLoop(progress_callbacks, outs, 1, FALSE,
                            [NoLast EXCEPT !.op = "call_progress_callbacks"])
    /\ UNCHANGED <<step_callbacks, progress_callbacks, learning_callbacks, model_wrappers>>
    /\ UNCHANGED <<first_registered, last_registered>>
    /\ UNCHANGED <<cfgvars, hcvars, hpvars>>

call_learn_callbacks(outs) ==
    /\ last' = CallLoop(learning_callbacks, outs, 1, [NoLast EXCEPT !.op = "call_learn_callbacks"])
    /\ UNCHANGED <<step_callbacks, progress_callbacks, learning_callbacks, model_wrappers>>
    /\ UNCHANGED <<first_registered, last_registered>>
    /\ UNCHANGED <<cfgvars, hcvars, hpvars>>

(***************************************************************************)
(* build_model.  A model is the factory's model followed by the wrappers   *)
(* applied to it, innermost first.                                         *)
(***************************************************************************)
FactoryModel == <<"model_factory">>
ApplyWrapper(w, model) == Append(model, w)
Invocation(fn, arg) == [fn |-> fn, arg |-> arg]

\* Mutant: every wrapper is handed the result of the previous iteration's
\* input, i.e. the assignment "model = wrapper(model)" loses the result.
RECURSIVE WrapLoop_drops(_, _, _, _)
WrapLoop_drops(wrappers, i, model, calls) ==
    IF i > Len(wrappers) THEN [model |-> model, calls |-> calls]
    ELSE WrapLoop_drops(wrappers, i + 1,
                        IF i = Len(wrappers) THEN ApplyWrapper(wrappers[i], model) ELSE model,
                        Append(calls, Invocation(wrappers[i], model)))

\* for i, wrapper in enumerate(self.model_wrappers): model = wrapper(model)
RECURSIVE WrapLoop(_, _, _, _)
WrapLoop(wrappers, i, model, calls) ==
    IF i > Len(wrappers) THEN [model |-> model, calls |-> calls]
    ELSE WrapLoop(wrappers, i + 1, ApplyWrapper(wrappers[i], model),
                  Append(calls, Invocation(wrappers[i], model)))

BuildModel(wrappers) ==
    WrapLoop(wrappers, 1, FactoryModel, <<Invocation("model_factory", <<>>)>>)

build_model ==
    /\ last' = [NoLast EXCEPT !.op = "build_model",
                              !.calls = BuildModel(model_wrappers).calls,
                              !.model = BuildModel(model_wrappers).model]
    /\ UNCHANGED <<step_callbacks, progress_callbacks, learning_callbacks, model_wrappers>>
    /\ UNCHANGED <<first_registered, last_registered>>
    /\ UNCHANGED <<cfgvars, hcvars, hpvars>>

(***************************************************************************)
(* Replay buffer: a ring of at most max_len entries; an n-step buffer      *)
(* keeps the raw transitions of the current window in pending and commits  *)
(* one folded entry when n_step of them are there or a terminal one comes. *)
(***************************************************************************)
NewBuffer(type, max_len, n_step) ==
    [type |-> type, max_len |-> max_len, n_step |-> n_step,
     entries |-> <<>>, pending |-> <<>>]

ReplayBufferEntry(s0, s1, a, r, final) ==
    [s |-> s0, s_ |-> s1, a |-> a, r |-> r, final |-> final]

RpLen(rb) == Len(rb.entries)

RECURSIVE SumRewards(_)
SumRewards(window) ==
    IF window = <<>> THEN 0 ELSE Head(window).r + SumRewards(Tail(window))

Fold(window) ==
    ReplayBufferEntry(window[1].s, window[Len(window)].s_, window[1].a,
                      SumRewards(window), window[Len(window)].final)

Commit(entries, e, max_len) ==
    IF Len(entries) + 1 > max_len
    THEN SubSeq(Append(entries, e), Len(entries) + 2 - max_len, Len(entries) + 1)
    ELSE Append(entries, e)

RpAdd(rb, e) ==
    IF rb.n_step = 1
    THEN [rb EXCEPT !.entries = Commit(@, e, rb.max_len)]
    ELSE LET window == Append(rb.pending, e)
         IN IF Len(window) >= rb.n_step \/ e.final
            THEN [rb EXCEPT !.entries = Commit(@, Fold(window), rb.max_len),
                            !.pending = IF e.final THEN <<>> ELSE Tail(window)]
            ELSE [rb EXCEPT !.pending = window]

\* the batches sample(2) may return: two entries of the buffer, distinct ones
\* unless the buffer draws by priority
RpSample2(rb) ==
    {<<rb.entries[p[1]], rb.entries[p[2]]>> :
        p \in {q \in (1..Len(rb.entries)) \X (1..Len(rb.entries)) :
                  q[1] # q[2] \/ IsPrioritized(rb.type)}}

RpClear(rb) == [rb EXCEPT !.entries = <<>>, !.pending = <<>>]

(***************************************************************************)
(* health_check, statement by statement.  pc is the statement to run next: *)
(*   idle -> preprocess -> infer -> collect (the while loop) -> learn      *)
(*        -> clear -> persist (Agent only) -> done, or raised.             *)
(***************************************************************************)
EnvStates == {"s0", "s1"}
Rewards == {1}
Exceptions == {"ValueError", "RuntimeError"}
Phases == {"preprocess", "infer", "learn"}

NoException == [type |-> "None", wraps |-> "None", phase |-> "None"]
Raised(type) == [type |-> type, wraps |-> "None", phase |-> "None"]
NoThrown == [by |-> "None", e |-> NoException]

ErrorMessage(phase) ==
    IF phase = "preprocess" THEN "error while testing preprocessing"
    ELSE IF phase = "infer" THEN "error while testing inference"
    ELSE "error while testing learning"

\* Mutant: the handler logs and goes on with the next statement.
Except_swallows(phase, e) ==
    [pc |-> IF phase = "preprocess" THEN "infer"
            ELSE IF phase = "infer" THEN "collect" ELSE "clear",
     exc |-> NoException, log |-> <<ErrorMessage(phase)>>]

\* Mutant: the handler raises a HealthCheckFailure that wraps e and names the phase.
Except_wraps(phase, e) ==
    [pc |-> "raised",
     exc |-> [type |-> "HealthCheckFailure", wraps |-> e.type, phase |-> phase],
     log |-> <<ErrorMessage(phase)>>]

\* except Exception as e: self.log.error(...); raise e
Except(phase, e) ==
    [pc |-> "raised", exc |-> e, log |-> <<ErrorMessage(phase)>>]

\* One guarded call of an abstract method: it returns, or raises e.
Try(phase, outcome, next) ==
    /\ invoked' = invoked \cup {phase}
    /\ IF outcome = "ok"
       THEN /\ pc' = next
            /\ UNCHANGED <<exc, thrown, log>>
       ELSE /\ thrown' = [by |-> phase, e |-> Raised(outcome)]
            /\ pc' = Except(phase, Raised(outcome)).pc
            /\ exc' = Except(phase, Raised(outcome)).exc
            /\ log' = log \o Except(phase, Raised(outcome)).log

\* s = env.reset()
hc_begin(s0) ==
    /\ pc = "idle"
    /\ s' = s0
    /\ pc' = "preprocess"
    /\ invoked' = {"env.reset"}
    /\ log' = <<>>
    /\ exc' = NoException
    /\ thrown' = NoThrown
    /\ batch' = <<>>
    /\ rp_at_call' = replay_buffer
    /\ UNCHANGED <<replay_buffer, save_path, summary_writer>>
    /\ UNCHANGED <<cfgvars, cbvars, hpvars>>

hc_preprocess(outcome) ==
    /\ pc = "preprocess"
    /\ Try("preprocess", outcome, "infer")
    /\ UNCHANGED <<replay_buffer, s, batch, rp_at_call, save_path, summary_writer>>
    /\ UNCHANGED <<cfgvars, cbvars, hpvars>>

hc_infer(outcome) ==
    /\ pc = "infer"
    /\ Try("infer", outcome, "collect")
    /\ UNCHANGED <<replay_buffer, s, batch, rp_at_call, save_path, summary_writer>>
    /\ UNCHANGED <<cfgvars, cbvars, hpvars>>

\* Mutant: the loop collects one transition before it looks at the length.
hc_collect_first(s1, r, final, s0) ==
    /\ pc = "collect"
    /\ RpLen(replay_buffer) < 2 \/ "env.step" \notin invoked
    /\ replay_buffer' = RpAdd(replay_buffer, ReplayBufferEntry(s, s1, 0, r, final))
    /\ s' = IF final THEN s0 ELSE s1
    /\ invoked' = invoked \cup {"env.step", "rp.add"}
    /\ UNCHANGED <<pc, batch, exc, thrown, log, rp_at_call, save_path, summary_writer>>
    /\ UNCHANGED <<cfgvars, cbvars, hpvars>>

\* one iteration of: while len(replay_buffer) < 2
hc_collect(s1, r, final, s0) ==
    /\ pc = "collect"
    /\ RpLen(replay_buffer) < 2
    /\ replay_buffer' = RpAdd(replay_buffer, ReplayBufferEntry(s, s1, 0, r, final))
    /\ s' = IF final THEN s0 ELSE s1
    /\ invoked' = invoked \cup {"env.step", "rp.add"}
    /\ UNCHANGED <<pc, batch, exc, thrown, log, rp_at_call, save_path, summary_writer>>
    /\ UNCHANGED <<cfgvars, cbvars, hpvars>>

\* the loop is left; batch = replay_buffer.sample(2)
hc_sample(b) ==
    /\ pc = "collect"
    /\ ~(RpLen(replay_buffer) < 2)
    /\ batch' = b
    /\ pc' = "learn"
    /\ invoked' = invoked \cup {"rp.sample"}
    /\ UNCHANGED <<replay_buffer, s, exc, thrown, log, rp_at_call, save_path, summary_writer>>
    /\ UNCHANGED <<cfgvars, cbvars, hpvars>>

\* Mutant: a failed learn empties the replay buffer before the exception
\* leaves health_check.
hc_learn_rollback(outcome) ==
    /\ pc = "learn"
    /\ Try("learn", outcome, "clear")
    /\ replay_buffer' = IF outcome = "ok" THEN replay_buffer ELSE RpClear(replay_buffer)
    /\ UNCHANGED <<s, batch, rp_at_call, save_path, summary_writer>>
    /\ UNCHANGED <<cfgvars, cbvars, hpvars>>

hc_learn(outcome) ==
    /\ pc = "learn"
    /\ Try("learn", outcome, "clear")
    /\ UNCHANGED <<replay_buffer, s, batch, rp_at_call, save_path, summary_writer>>
    /\ UNCHANGED <<cfgvars, cbvars, hpvars>>

\* Mutant: health_check ends without clearing the replay buffer.
hc_clear_skipped ==
    /\ pc = "clear"
    /\ pc' = IF cls = "Agent" THEN "persist" ELSE "done"
    /\ UNCHANGED <<replay_buffer, invoked>>
    /\ UNCHANGED <<s, batch, exc, thrown, log, rp_at_call, save_path, summary_writer>>
    /\ UNCHANGED <<cfgvars, cbvars, hpvars>>

\* self.replay_buffer.clear() / self.rp_clear()
hc_clear ==
    /\ pc = "clear"
    /\ replay_buffer' = RpClear(replay_buffer)
    /\ invoked' = invoked \cup {"rp.clear"}
    /\ pc' = IF cls = "Agent" THEN "persist" ELSE "done"
    /\ UNCHANGED <<s, batch, exc, thrown, log, rp_at_call, save_path, summary_writer>>
    /\ UNCHANGED <<cfgvars, cbvars, hpvars>>

\* Agent only: create_save_folder, TensorBoard, save_agent_info.  mkdir may
\* fail (fs = "OSError"); get_info reads self.explorer.ep, which raises
\* AttributeError when the explorer is None.
hc_persist(fs) ==
    /\ pc = "persist"
    /\ LET folder == tensor_board_log \/ save_progress
           mkdir_fails == folder /\ fs = "OSError"
           info_fails == save_progress /\ explorer = "None"
       IN /\ fs = "OSError" => folder
          /\ save_path' = IF folder /\ ~mkdir_fails THEN "folder" ELSE save_path
          /\ summary_writer' = IF tensor_board_log /\ ~mkdir_fails
                               THEN "TensorBoard" ELSE summary_writer
          /\ invoked' = invoked
                \cup (IF folder THEN {"create_save_folder"} ELSE {})
                \cup (IF tensor_board_log /\ ~mkdir_fails THEN {"TensorBoard"} ELSE {})
                \cup (IF save_progress /\ ~mkdir_fails THEN {"save_agent_info"} ELSE {})
          /\ IF mkdir_fails
             THEN /\ thrown' = [by |-> "create_save_folder", e |-> Raised("OSError")]
                  /\ exc' = Raised("OSError")
                  /\ pc' = "raised"
             ELSE IF info_fails
             THEN /\ thrown' = [by |-> "save_agent_info", e |-> Raised("AttributeError")]
                  /\ exc' = Raised("AttributeError")
                  /\ pc' = "raised"
             ELSE /\ pc' = "done"
                  /\ UNCHANGED <<exc, thrown>>
    /\ UNCHANGED <<replay_buffer, s, batch, log, rp_at_call>>
    /\ UNCHANGED <<cfgvars, cbvars, hpvars>>

(***************************************************************************)
(* gamma.  A gamma is a fraction <<numerator, denominator>>, so that a     *)
(* power of it is exact.                                                   *)
(***************************************************************************)
Gamma(num, den) == <<num, den>>
Pow(g, n) == Gamma(g[1] ^ n, g[2] ^ n)
SetGamma(g) == <<g>>

\* self.gamma = hp.gamma, before any linking
FieldGamma(g) == [gamma |-> g, hp_gamma |-> g, replay_buffer_gamma |-> <<>>]

\* Mutant: gamma is multiplied by n_step.
link_replay_buffer_gamma_times(G, rb) ==
    IF IsNSteps(rb.type)
    THEN [G EXCEPT !.replay_buffer_gamma = SetGamma(G.hp_gamma),
                   !.gamma = Gamma(G.hp_gamma[1] * rb.n_step, G.hp_gamma[2])]
    ELSE G

\* the n_steps half of link_replay_buffer:
\* replay_buffer.set_gamma(hp.gamma); self.gamma = hp.gamma ** n_step
link_replay_buffer_gamma(G, rb) ==
    IF IsNSteps(rb.type)
    THEN [G EXCEPT !.replay_buffer_gamma = SetGamma(G.hp_gamma),
                   !.gamma = Pow(G.hp_gamma, rb.n_step)]
    ELSE G

HpGamma == Gamma(995, 1000)

\* The hyper-parameters, the gammas and the networks of a constructed agent.
HyperLinked(g) ==
    /\ LET G == IF cls = "Agent"
                THEN link_replay_buffer_gamma(FieldGamma(g), replay_buffer)
                ELSE FieldGamma(g)
       IN /\ hp_gamma = G.hp_gamma
          /\ gamma = G.gamma
          /\ replay_buffer_gamma = G.replay_buffer_gamma
    /\ reset_noise_every = 1
    /\ layers = <<>>

(***************************************************************************)
(* Construction                                                            *)
(***************************************************************************)
Constructed(rb) ==
    /\ cls \in Classes
    /\ IF cls = "Agent"
       THEN /\ explorer \in Explorers
            /\ save_progress \in BOOLEAN
            /\ tensor_board_log \in BOOLEAN
       ELSE /\ explorer = "None"
            /\ save_progress = FALSE
            /\ tensor_board_log = FALSE
    /\ LET R == IF cls = "Agent"
                THEN AgentLinked(rb, explorer, save_progress, tensor_board_log)
                ELSE EmptyRegistries
       IN /\ step_callbacks = R.step
          /\ progress_callbacks = R.progress
          /\ learning_callbacks = R.learn
          /\ model_wrappers = R.wrappers
    /\ last = NoLast
    /\ first_registered = [k \in {"step", "progress", "learn"} |-> <<>>]
    /\ last_registered = [step |-> step_callbacks, progress |-> progress_callbacks,
                          learn |-> learning_callbacks]
    /\ save_path = "None"
    /\ summary_writer = "None"

Idle ==
    /\ pc = "idle"
    /\ s = "None"
    /\ batch = <<>>
    /\ exc = NoException
    /\ thrown = NoThrown
    /\ invoked = {}
    /\ log = <<>>
    /\ rp_at_call = replay_buffer

Init ==
    /\ \E rb \in ReplayBuffers :
          /\ replay_buffer = NewBuffer(rb, 2, IF IsNSteps(rb) THEN 2 ELSE 1)
          /\ Constructed(rb)
          /\ cls = "BaseAgent" => rb = "RandomReplayBuffer"
    /\ HyperLinked(HpGamma)
    /\ Idle

Next ==
    \/ \E label \in Labels, cbk \in UserCbks : add_step_callback(label, cbk)
    \/ \E label \in Labels, cbk \in UserCbks : add_progress_callback(label, cbk)
    \/ \E label \in Labels, cbk \in UserCbks : add_learn_callback(label, cbk)
    \/ \E cbk \in UserCbks : Agent_add_step_callback(cbk)
    \/ \E cbk \in UserCbks : Agent_add_progress_callback(cbk)
    \/ \E cbk \in UserCbks : Agent_add_learn_callback(cbk)
    \/ \E w \in UserWrappers : model_wrappers_append(w)
    \/ \E outs \in OutcomeChoices("call_step_callbacks", step_callbacks) :
          call_step_callbacks(outs)
    \/ \E outs \in OutcomeChoices("call_progress_callbacks", progress_callbacks) :
          call_progress_callbacks(outs)
    \/ \E outs \in OutcomeChoices("call_learn_callbacks", learning_callbacks) :
          call_learn_callbacks(outs)
    \/ build_model

Spec == Init /\ [][Next]_vars

(***************************************************************************)
(* Properties of the callback registries and of build_model                *)
(***************************************************************************)
Registry(k) ==
    IF k = "step" THEN step_callbacks
    ELSE IF k = "progress" THEN progress_callbacks
    ELSE learning_callbacks

Kinds == {"step", "progress", "learn"}
CallOp(k) == "call_" \o k \o "_callbacks"
AddOp(k) == "add_" \o k \o "_callback"
Returned == last.result # "raised"

Occurrences(seq, e) == Cardinality({i \in 1..Len(seq) : seq[i] = e})
Elements(seq) == {seq[i] : i \in 1..Len(seq)}
IsPrefix(p, q) == Len(p) <= Len(q) /\ \A i \in 1..Len(p) : p[i] = q[i]
LabelsOf(seq) == [i \in 1..Len(seq) |-> seq[i].label]

\* C1: call_progress_callbacks returns True exactly when at least one
\* registered callback returned a truthy value in that call; with no callback
\* registered, or when all return falsy values, it returns False.
C1_ProgressOr ==
    (last.op = "call_progress_callbacks" /\ Returned) =>
        /\ last.result \in {"True", "False"}
        /\ last.result = "True" <=>
              \E i \in 1..Len(progress_callbacks) :
                  /\ i <= Len(last.invoked)
                  /\ last.invoked[i] = progress_callbacks[i]
                  /\ Truthy(last.rets[i])

\* three callbacks returning False, True, False: the call returned True
C1_Witness ==
    /\ last.op = "call_progress_callbacks"
    /\ last.rets = <<"False", "True", "False">>
    /\ last.result = "True"

\* C2: in one call of call_progress_callbacks that no callback left by
\* raising, every registration of the progress registry is invoked exactly
\* once, also those that come after a callback that returned True.
C2_AllInvokedOnce ==
    (last.op = "call_progress_callbacks" /\ Returned) =>
        /\ Len(last.invoked) = Len(progress_callbacks)
        /\ \A e \in Elements(progress_callbacks) \cup Elements(last.invoked) :
              Occurrences(last.invoked, e) = Occurrences(progress_callbacks, e)

\* the first callback asked to stop and the ones after it still ran
C2_Witness ==
    /\ last.op = "call_progress_callbacks"
    /\ Returned
    /\ Len(last.rets) >= 2
    /\ last.rets[1] = "True"
    /\ Len(last.invoked) = Len(progress_callbacks)

UniqueLabels(reg) ==
    \A i, j \in 1..Len(reg) : reg[i].label = reg[j].label => i = j

\* C3: in BaseAgent every registry holds at most one callback per label, and
\* it is the one registered last under that label: a registration under a
\* used label succeeds, replaces the callback, and a later call_*_callbacks
\* fires only the callbacks registered last under their labels.
C3_OnePerLabel ==
    cls = "BaseAgent" =>
        \A k \in Kinds :
            /\ UniqueLabels(Registry(k))
            /\ Elements(Registry(k)) = Elements(last_registered[k])
            /\ Len(Registry(k)) = Len(last_registered[k])
            /\ last.op = AddOp(k) =>
                  \E i \in 1..Len(Registry(k)) :
                      Registry(k)[i] = Entry(last.label, last.cbk)
            /\ last.op = CallOp(k) =>
                  /\ Elements(last.invoked) \subseteq Elements(last_registered[k])
                  /\ Returned => Elements(last.invoked) = Elements(last_registered[k])

\* a label of the progress registry was registered again (the registry's order
\* is no longer the order of the latest registrations), then the registry fired
C3_Witness ==
    /\ cls = "BaseAgent"
    /\ last.op = "call_progress_callbacks"
    /\ Len(last.invoked) = 2
    /\ last_registered["progress"] # progress_callbacks

\* C4 as stated: the callbacks are invoked in the order in which they were
\* registered (a callback registered before another one is invoked before it).
C4_RegistrationOrder ==
    \A k \in Kinds :
        last.op = CallOp(k) => IsPrefix(last.invoked, last_registered[k])

\* C4, amended: the callbacks are invoked in the order in which their labels
\* were first registered (BaseAgent: a callback that replaced another one runs
\* at the replaced one's position); in Agent, whose registries have no labels,
\* in the order in which the callbacks were registered.
C4_FirstRegistrationOrder ==
    \A k \in Kinds :
        last.op = CallOp(k) =>
            IF cls = "BaseAgent"
            THEN IsPrefix(LabelsOf(last.invoked), first_registered[k])
            ELSE IsPrefix(last.invoked, last_registered[k])

\* two labels registered, the first one registered again, then both fired
C4_Witness ==
    /\ cls = "BaseAgent"
    /\ last.op = "call_step_callbacks"
    /\ Len(last.invoked) = 2
    /\ last_registered["step"] # step_callbacks

Others(k) == <<[j \in Kinds \ {k} |-> Registry(j)], model_wrappers>>

\* C5: add_X_callback changes registry X only (the two other registries and
\* the model wrappers stay as they are), and call_X_callbacks invokes
\* callbacks of registry X only and changes no registry.
C5_Independent ==
    [][\A k \in Kinds :
          /\ last'.op = AddOp(k) => Others(k)' = Others(k)
          /\ last'.op = CallOp(k) =>
                /\ Elements(last'.invoked) \subseteq Elements(Registry(k))
                /\ UNCHANGED <<step_callbacks, progress_callbacks,
                               learning_callbacks, model_wrappers>>
      ]_vars

\* the same label is in use in two registries with different callbacks, and
\* one of the two registries fired
C5_Witness ==
    /\ last.op = "call_progress_callbacks"
    /\ Len(last.invoked) >= 1
    /\ \E i \in 1..Len(step_callbacks) :
          /\ step_callbacks[i].label = progress_callbacks[1].label
          /\ step_callbacks[i].cbk # progress_callbacks[1].cbk

ResultOf(call) ==
    IF call.fn = "model_factory" THEN FactoryModel ELSE ApplyWrapper(call.fn, call.arg)

\* C6: build_model calls model_factory once, then every registered wrapper
\* once, in registration order, each on the result of the call before it, and
\* returns the result of the last call (the factory's model if there is no
\* wrapper).
C6_BuildModel ==
    last.op = "build_model" =>
        /\ Len(last.calls) = 1 + Len(model_wrappers)
        /\ last.calls[1] = Invocation("model_factory", <<>>)
        /\ \A i \in 1..Len(model_wrappers) :
              /\ last.calls[i + 1].fn = model_wrappers[i]
              /\ last.calls[i + 1].arg = ResultOf(last.calls[i])
        /\ last.model = ResultOf(last.calls[Len(last.calls)])

\* a model built through three wrappers
C6_Witness ==
    /\ last.op = "build_model"
    /\ Len(model_wrappers) = 3
    /\ Len(last.model) = 4

(***************************************************************************)
(* health_check on a constructed object whose replay buffer may already    *)
(* hold entries of real interaction                                        *)
(***************************************************************************)
RealEntry == ReplayBufferEntry("s0", "s1", 1, 1, FALSE)

InitHC ==
    /\ \E rb \in ReplayBuffers, max_len \in 1..MaxLen, n_step \in 1..MaxNStep :
          /\ n_step > 1 => IsNSteps(rb)
          /\ \E k \in 0..MaxPre :
                /\ k <= max_len
                /\ replay_buffer =
                      [NewBuffer(rb, max_len, n_step) EXCEPT !.entries = [i \in 1..k |-> RealEntry]]
          /\ Constructed(rb)
    /\ HyperLinked(HpGamma)
    /\ Idle

Outcome == {"ok"} \cup Exceptions

\* Mutant: the saver does not look at save_path.
SaveTrainingProgress_unguarded(path, isdir, fs) ==
    [result |-> IF fs = "ok" THEN "False" ELSE "raised",
     calls |-> (IF isdir THEN <<>> ELSE <<Invocation("os.mkdir", <<"checkpoints">>)>>)
               \o <<Invocation("json.dump", <<"checkpoint">>)>>]

\* Agent.save_training_progress_callback: what it returns and what it asks of
\* the filesystem.  isdir: the checkpoints folder exists; fs: whether writing
\* the checkpoint file succeeds.
SaveTrainingProgress(path, isdir, fs) ==
    IF path = "None"
    THEN [result |-> "False", calls |-> <<>>]
    ELSE [result |-> IF fs = "ok" THEN "False" ELSE "raised",
          calls |-> (IF isdir THEN <<>> ELSE <<Invocation("os.mkdir", <<"checkpoints">>)>>)
                    \o <<Invocation("json.dump", <<"checkpoint">>)>>]

\* The saver called between two calls of the agent's other methods: before
\* health_check, or after it has returned or raised.
save_training_progress_callback(isdir, fs) ==
    /\ cls = "Agent"
    /\ pc \in {"idle", "done", "raised"}
    /\ LET did == SaveTrainingProgress(save_path, isdir, fs)
       IN last' = [NoLast EXCEPT !.op = "save_training_progress_callback",
                                 !.result = did.result,
                                 !.calls = did.calls]
    /\ UNCHANGED <<step_callbacks, progress_callbacks, learning_callbacks, model_wrappers>>
    /\ UNCHANGED <<first_registered, last_registered>>
    /\ UNCHANGED <<cfgvars, hcvars, hpvars>>

HcStep ==
    \/ \E outcome \in Outcome : hc_preprocess(outcome)
    \/ \E outcome \in Outcome : hc_infer(outcome)
    \/ \E s1 \in EnvStates, r \in Rewards, final \in BOOLEAN, s0 \in EnvStates :
          hc_collect(s1, r, final, s0)
    \/ \E b \in RpSample2(replay_buffer) : hc_sample(b)
    \/ \E outcome \in Outcome : hc_learn(outcome)
    \/ hc_clear
    \/ \E fs \in {"ok", "OSError"} : hc_persist(fs)

NextHC ==
    \/ \E s0 \in EnvStates : hc_begin(s0)
    \/ HcStep
    \/ \E isdir \in BOOLEAN, fs \in {"ok", "OSError"} :
          save_training_progress_callback(isdir, fs)

SpecHC == InitHC /\ [][NextHC]_vars

\* health_check runs on the caller's single thread: once called, it goes on
\* with its next statement.
FairSpecHC == SpecHC /\ WF_vars(HcStep)

(***************************************************************************)
(* Properties of health_check                                              *)
(***************************************************************************)
LaterThan(phase) ==
    IF phase = "preprocess"
    THEN {"infer", "env.step", "rp.add", "rp.sample", "learn", "rp.clear",
          "create_save_folder", "TensorBoard", "save_agent_info"}
    ELSE IF phase = "infer"
    THEN {"env.step", "rp.add", "rp.sample", "learn", "rp.clear",
          "create_save_folder", "TensorBoard", "save_agent_info"}
    ELSE {"rp.clear", "create_save_folder", "TensorBoard", "save_agent_info"}

\* C7: whenever health_check has returned normally the replay buffer is empty,
\* whatever it held before and however many transitions were collected.
C7_EmptyOnReturn == pc = "done" => RpLen(replay_buffer) = 0

\* a buffer that held an entry, a self-test that stepped the environment, and
\* a normal return
C7_Witness ==
    /\ pc = "done"
    /\ RpLen(rp_at_call) = 1
    /\ "env.step" \in invoked

\* C8: an exception raised by preprocess, infer or learn leaves health_check
\* (it is the exception the caller gets) and nothing after the failed phase
\* runs; when preprocess or infer raised, the replay buffer is as it was.
C8_FailFast ==
    thrown.by \in Phases =>
        /\ pc = "raised"
        /\ exc = thrown.e
        /\ invoked \cap LaterThan(thrown.by) = {}
        /\ thrown.by \in {"preprocess", "infer"} => replay_buffer = rp_at_call

\* infer raised on an object whose buffer held an entry
C8_Witness ==
    /\ pc = "raised"
    /\ thrown.by = "infer"
    /\ RpLen(replay_buffer) = 1

\* C9 as stated: what the caller gets is a HealthCheckFailure that wraps the
\* original exception and names the phase that failed.
C9_HealthCheckFailure ==
    pc = "raised" =>
        /\ exc.type = "HealthCheckFailure"
        /\ exc.wraps = thrown.e.type
        /\ exc.phase = thrown.by

\* C9, amended: what the caller gets is the original exception itself, not
\* wrapped and without a phase; the phase (preprocess, infer or learn) is
\* named only by the one error line logged before the exception is raised
\* again, and a failure of the persistence step is not logged at all.
C9_Reraised ==
    pc = "raised" =>
        /\ exc = thrown.e
        /\ exc.type # "HealthCheckFailure"
        /\ exc.phase = "None"
        /\ log = IF thrown.by \in Phases THEN <<ErrorMessage(thrown.by)>> ELSE <<>>

\* learn raised a RuntimeError
C9_Witness ==
    /\ pc = "raised"
    /\ thrown.by = "learn"
    /\ exc.type = "RuntimeError"

\* C10: once begun, health_check comes to an end (it returns or raises): the
\* collection loop is left after finitely many steps.
C10_Terminates == (pc = "collect") ~> (pc \in {"done", "raised"})

(***************************************************************************)
(* Exceptions raised by callbacks                                          *)
(***************************************************************************)
FirstRaise(rets) ==
    CHOOSE i \in 1..Len(rets) :
        rets[i] = "raise" /\ \A j \in 1..(i - 1) : rets[j] # "raise"

\* C11: a callback that raises inside call_step_callbacks,
\* call_progress_callbacks or call_learn_callbacks is not isolated: the call
\* ends by raising, the callbacks registered after it are not invoked in that
\* call, and call_progress_callbacks returns no value, whatever the callbacks
\* before it returned.
C11_NotIsolated ==
    \A k \in Kinds :
        (last.op = CallOp(k) /\ "raise" \in Elements(last.rets)) =>
            LET i == FirstRaise(last.rets)
            IN /\ last.result = "raised"
               /\ last.result \notin {"True", "False"}
               /\ Len(last.rets) = i
               /\ Len(last.invoked) = i
               /\ i <= Len(Registry(k))
               /\ \A j \in 1..i : last.invoked[j] = Registry(k)[j]

\* the first progress callback asked to stop and the second one raised
C11_Witness ==
    /\ last.op = "call_progress_callbacks"
    /\ last.rets = <<"True", "raise">>
    /\ last.result = "raised"
    /\ Len(last.invoked) = 2

(***************************************************************************)
(* What Agent.__init__ links by itself                                     *)
(***************************************************************************)
Linked(reg, cbk) == Occurrences(reg, Entry(NoLabel, cbk))

\* C12: an Agent's learn registry holds the priority-update callback and its
\* step registry holds the beta-increase callback, each exactly once, exactly
\* when its replay buffer is a PrioritizedReplayBuffer or an
\* NStepsPrioritizedReplayBuffer; with any other buffer it holds neither.
C12_PriorityLinked ==
    cls = "Agent" =>
        LET n == IF replay_buffer.type \in {"PrioritizedReplayBuffer",
                                            "NStepsPrioritizedReplayBuffer"}
                 THEN 1 ELSE 0
        IN /\ Linked(learning_callbacks, "prioritized_replay_buffer_update_priorities") = n
           /\ Linked(step_callbacks, "prioritized_replay_buffer_increase_beta") = n
           /\ Linked(step_callbacks, "prioritized_replay_buffer_update_priorities") = 0
           /\ Linked(learning_callbacks, "prioritized_replay_buffer_increase_beta") = 0

\* an Agent just constructed with an n-step prioritized buffer
C12_Witness ==
    /\ cls = "Agent"
    /\ replay_buffer.type = "NStepsPrioritizedReplayBuffer"
    /\ last = NoLast
    /\ learning_callbacks = <<Entry(NoLabel, "prioritized_replay_buffer_update_priorities")>>
    /\ step_callbacks[1] = Entry(NoLabel, "prioritized_replay_buffer_increase_beta")

\* C15: what an Agent links for its explorer matches the explorer's type and
\* nothing else: for a RandomExplorer exactly one epsilon-decay step callback
\* and no explorer model wrapper; for a NoisyExplorer exactly one noise-reset
\* step callback and exactly one noisy-layer model wrapper; for any other
\* explorer, None included, none of the three.
C15_ExplorerLinked ==
    cls = "Agent" =>
        LET decay == Linked(step_callbacks, "random_explorer_decay_epsilon")
            reset == Linked(step_callbacks, "noisy_explorer_reset_noise")
            wrap == Occurrences(model_wrappers, "noisy_linear_model_factory")
        IN <<decay, reset, wrap>> =
              IF explorer = "RandomExplorer" THEN <<1, 0, 0>>
              ELSE IF explorer = "NoisyExplorer" THEN <<0, 1, 1>>
              ELSE <<0, 0, 0>>

\* an Agent just constructed with a NoisyExplorer and a prioritized buffer:
\* the noise reset is linked after the buffer's step callback
C15_Witness ==
    /\ cls = "Agent"
    /\ explorer = "NoisyExplorer"
    /\ last = NoLast
    /\ model_wrappers[1] = "noisy_linear_model_factory"
    /\ step_callbacks = <<Entry(NoLabel, "prioritized_replay_buffer_increase_beta"),
                          Entry(NoLabel, "noisy_explorer_reset_noise")>>

\* C20: the progress callbacks an Agent links by itself (checkpoint saver,
\* tensorboard episode reward, epsilon and beta) never ask to stop: while no
\* user progress callback is registered, a call of call_progress_callbacks
\* that returns returns False, in every configuration.
C20_LinkedNeverStop ==
    (/\ cls = "Agent"
     /\ last.op = "call_progress_callbacks"
     /\ \A e \in Elements(progress_callbacks) : e.cbk \notin UserCbks) =>
        /\ last.result # "True"
        /\ Returned => last.result = "False"
        /\ \A i \in 1..Len(last.rets) : ~Truthy(last.rets[i])

\* the four linked progress callbacks were all invoked and the call returned
C20_Witness ==
    /\ cls = "Agent"
    /\ last.op = "call_progress_callbacks"
    /\ Len(progress_callbacks) = 4
    /\ \A e \in Elements(progress_callbacks) : e.cbk \in LinkedProgressCbks
    /\ Len(last.invoked) = 4
    /\ last.result = "False"

(***************************************************************************)
(* Construction step by step, and what a constructed agent's explorer      *)
(* hooks do: the noise reset and the last layer factory                    *)
(***************************************************************************)
Gammas == {Gamma(1, 2), Gamma(9, 10)}
Steps == 0..MaxStep
Features == {1, 2}
LayerKinds == {"torch.nn.Linear", "NoisyLinear"}
Layer(kind) == [kind |-> kind, noise |-> 0]

RECURSIVE LayersUpTo(_)
LayersUpTo(n) ==
    IF n = 0 THEN {<<>>}
    ELSE LayersUpTo(n - 1)
         \cup {Append(ls, Layer(kind)) : ls \in {l \in LayersUpTo(n - 1) : Len(l) = n - 1},
                                        kind \in LayerKinds}

\* Mutant: the test is on the step count, which starts at one.
ResetDue_counted(step, every) == (step + 1) % every = 0

\* training_step.step % self.explorer.ep.reset_noise_every == 0
ResetDue(step, every) == step % every = 0

\* for ... value.modules(): if isinstance(layer, NoisyLinear): layer.reset_noise()
RECURSIVE ResetLoop(_, _, _)
ResetLoop(ls, i, acc) ==
    IF i > Len(ls) THEN acc
    ELSE IF ls[i].kind = "NoisyLinear"
    THEN ResetLoop(ls, i + 1,
                   [layers |-> Append(acc.layers, [ls[i] EXCEPT !.noise = @ + 1]),
                    calls |-> Append(acc.calls, Invocation("reset_noise", <<i>>))])
    ELSE ResetLoop(ls, i + 1, [acc EXCEPT !.layers = Append(@, ls[i])])

ResetNoise(ls, step, every) ==
    IF ResetDue(step, every)
    THEN ResetLoop(ls, 1, [layers |-> <<>>, calls |-> <<>>])
    ELSE [layers |-> ls, calls |-> <<>>]

noisy_explorer_reset_noise(step) ==
    /\ pc = "idle"
    /\ cls = "Agent"
    /\ explorer = "NoisyExplorer"
    /\ \A i \in 1..Len(layers) : layers[i].noise < MaxResets
    /\ LET done == ResetNoise(layers, step, reset_noise_every)
       IN /\ layers' = done.layers
          /\ last' = [NoLast EXCEPT !.op = "noisy_explorer_reset_noise",
                                    !.arg = <<step>>,
                                    !.calls = done.calls]
    /\ UNCHANGED <<step_callbacks, progress_callbacks, learning_callbacks, model_wrappers>>
    /\ UNCHANGED <<first_registered, last_registered>>
    /\ UNCHANGED <<hp_gamma, gamma, replay_buffer_gamma, reset_noise_every>>
    /\ UNCHANGED <<cfgvars, hcvars>>

\* Mutant: the explorer is not looked at.
Agent_last_layer_factory_plain(ex) == "torch.nn.Linear"

\* Agent.last_layer_factory
Agent_last_layer_factory(ex) ==
    IF ex = "NoisyExplorer" THEN "NoisyLinear" ELSE "torch.nn.Linear"

\* BaseAgent.last_layer_factory (static)
BaseAgent_last_layer_factory == "torch.nn.Linear"

last_layer_factory(in_features, out_features) ==
    /\ pc = "idle"
    /\ LET kind == IF cls = "Agent" THEN Agent_last_layer_factory(explorer)
                   ELSE BaseAgent_last_layer_factory
       IN last' = [NoLast EXCEPT !.op = "last_layer_factory",
                                 !.arg = <<in_features, out_features>>,
                                 !.result = kind,
                                 !.calls = <<Invocation(kind, <<in_features, out_features>>)>>]
    /\ UNCHANGED <<step_callbacks, progress_callbacks, learning_callbacks, model_wrappers>>
    /\ UNCHANGED <<first_registered, last_registered>>
    /\ UNCHANGED <<cfgvars, hcvars, hpvars>>

\* The tail of __init__: the empty registries, then link_replay_buffer,
\* link_explorer, link_saver and link_tensorboard; ls are the layers of the
\* networks the concrete agent class then builds.
Agent_init(ls) ==
    /\ pc = "init"
    /\ pc' = "idle"
    /\ LET R == IF cls = "Agent"
                THEN AgentLinked(replay_buffer.type, explorer, save_progress, tensor_board_log)
                ELSE EmptyRegistries
           F == [gamma |-> gamma, hp_gamma |-> hp_gamma,
                 replay_buffer_gamma |-> replay_buffer_gamma]
           G == IF cls = "Agent" THEN link_replay_buffer_gamma(F, replay_buffer) ELSE F
       IN /\ step_callbacks' = R.step
          /\ progress_callbacks' = R.progress
          /\ learning_callbacks' = R.learn
          /\ model_wrappers' = R.wrappers
          /\ last_registered' = [step |-> R.step, progress |-> R.progress, learn |-> R.learn]
          /\ gamma' = G.gamma
          /\ hp_gamma' = G.hp_gamma
          /\ replay_buffer_gamma' = G.replay_buffer_gamma
    /\ layers' = ls
    /\ UNCHANGED <<last, first_registered, reset_noise_every, cfgvars>>
    /\ UNCHANGED <<replay_buffer, s, batch, exc, thrown, invoked, log, rp_at_call,
                   save_path, summary_writer>>

\* __init__ up to "self.gamma = hp.gamma" and the fields that follow it.
InitAgent ==
    /\ cls \in Classes
    /\ IF cls = "Agent"
       THEN /\ explorer \in Explorers
            /\ save_progress \in BOOLEAN
            /\ tensor_board_log \in BOOLEAN
            /\ \E rb \in ReplayBuffers, n_step \in 1..MaxNStep :
                  /\ n_step > 1 => IsNSteps(rb)
                  /\ replay_buffer = NewBuffer(rb, 2, n_step)
            /\ reset_noise_every \in 1..MaxEvery
       ELSE /\ explorer = "None"
            /\ save_progress = FALSE
            /\ tensor_board_log = FALSE
            /\ replay_buffer = NewBuffer("RandomReplayBuffer", 2, 1)
            /\ reset_noise_every = 1
    /\ step_callbacks = <<>>
    /\ progress_callbacks = <<>>
    /\ learning_callbacks = <<>>
    /\ model_wrappers = <<>>
    /\ last = NoLast
    /\ first_registered = [k \in {"step", "progress", "learn"} |-> <<>>]
    /\ last_registered = [k \in {"step", "progress", "learn"} |-> <<>>]
    /\ save_path = "None"
    /\ summary_writer = "None"
    /\ \E g \in Gammas :
          /\ hp_gamma = FieldGamma(g).hp_gamma
          /\ gamma = FieldGamma(g).gamma
          /\ replay_buffer_gamma = FieldGamma(g).replay_buffer_gamma
    /\ layers = <<>>
    /\ pc = "init"
    /\ s = "None"
    /\ batch = <<>>
    /\ exc = NoException
    /\ thrown = NoThrown
    /\ invoked = {}
    /\ log = <<>>
    /\ rp_at_call = replay_buffer

NextAgent ==
    \/ \E ls \in LayersUpTo(MaxLayers) : Agent_init(ls)
    \/ \E step \in Steps : noisy_explorer_reset_noise(step)
    \/ \E i \in Features, o \in Features : last_layer_factory(i, o)

SpecAgent == InitAgent /\ [][NextAgent]_vars

(***************************************************************************)
(* Properties of the constructed agent's gamma and explorer hooks          *)
(***************************************************************************)
\* C13: once an Agent is constructed, its gamma is hp.gamma to the power
\* n_step when the replay buffer is an n-step variant, and the buffer's own
\* gamma has then been set to the unscaled hp.gamma; with any other buffer
\* its gamma is hp.gamma.  hp.gamma itself is never modified.
C13_Gamma ==
    /\ []((cls = "Agent" /\ pc # "init") =>
            IF replay_buffer.type \in {"NStepsRandomReplayBuffer",
                                       "NStepsPrioritizedReplayBuffer"}
            THEN /\ gamma = <<hp_gamma[1] ^ replay_buffer.n_step,
                              hp_gamma[2] ^ replay_buffer.n_step>>
                 /\ replay_buffer_gamma = <<hp_gamma>>
            ELSE gamma = hp_gamma)
    /\ [][hp_gamma' = hp_gamma]_vars

\* an Agent constructed with hp.gamma = 9/10 and a 2-step buffer has
\* gamma = 81/100
C13_Witness ==
    /\ cls = "Agent"
    /\ pc = "idle"
    /\ replay_buffer.type = "NStepsRandomReplayBuffer"
    /\ replay_buffer.n_step = 2
    /\ hp_gamma = <<9, 10>>
    /\ gamma = <<81, 100>>
    /\ replay_buffer_gamma = <<(<<9, 10>>)>>

\* C14: the noise-reset step callback of a NoisyExplorer calls reset_noise
\* once on every NoisyLinear layer, and so renews its noise, exactly when
\* TrainingStep.step is a multiple of reset_noise_every (step 0 included);
\* on any other step it resets nothing, and it never touches another layer.
C14_NoiseReset ==
    [][last'.op = "noisy_explorer_reset_noise" =>
          LET step == last'.arg[1]
              due == \E q \in 0..step : step = q * reset_noise_every
              noisy == {i \in 1..Len(layers) : layers[i].kind = "NoisyLinear"}
          IN /\ Len(layers') = Len(layers)
             /\ \A i \in 1..Len(layers) :
                   /\ layers'[i].kind = layers[i].kind
                   /\ layers'[i].noise =
                         IF due /\ i \in noisy THEN layers[i].noise + 1
                         ELSE layers[i].noise
             /\ {last'.calls[j].arg[1] : j \in 1..Len(last'.calls)} =
                   IF due THEN noisy ELSE {}
             /\ Len(last'.calls) = IF due THEN Cardinality(noisy) ELSE 0]_vars

\* with reset_noise_every = 2 the noise of a noisy layer was reset at step 0
\* and again at step 4, and the plain layer next to it was left alone
C14_Witness ==
    /\ last.op = "noisy_explorer_reset_noise"
    /\ last.arg = <<4>>
    /\ reset_noise_every = 2
    /\ Len(layers) = 2
    /\ layers[1] = [kind |-> "NoisyLinear", noise |-> 2]
    /\ layers[2] = [kind |-> "torch.nn.Linear", noise |-> 0]
    /\ Len(last.calls) = 1

Persistence == {"create_save_folder", "TensorBoard", "save_agent_info"}

\* C17: health_check does not guard against prior data.  Called on a buffer
\* that already holds 2 or more entries, it performs no env.step, samples
\* among those entries and, when it returns, has discarded all of them
\* (length 0).  Called on a buffer that holds fewer than 2, it discards the
\* entries that were there together with the self-test transitions.
C17_PriorData ==
    pc # "idle" =>
        /\ RpLen(rp_at_call) >= 2 =>
              /\ invoked \cap {"env.step", "rp.add"} = {}
              /\ Elements(batch) \subseteq Elements(rp_at_call.entries)
              /\ "rp.sample" \in invoked => Len(batch) = 2
              /\ pc = "done" => RpLen(replay_buffer) = 0
        /\ (RpLen(rp_at_call) < 2 /\ pc = "done") =>
              /\ {"env.step", "rp.add", "rp.clear"} \subseteq invoked
              /\ replay_buffer.entries = <<>>

\* health_check returned on a buffer that held two entries: no env.step was
\* made and the two entries are gone
C17_Witness ==
    /\ pc = "done"
    /\ RpLen(rp_at_call) = 2
    /\ "env.step" \notin invoked
    /\ batch = <<RealEntry, RealEntry>>
    /\ RpLen(replay_buffer) = 0

\* C18: when learn raises during health_check nothing is rolled back: the
\* replay buffer is not cleared and still holds at least 2 entries, the
\* self-test transitions among them, and in Agent no persistence is
\* initialised: save_path and summary_writer stay None and neither the save
\* folder nor agent.json is created.
C18_NoRollback ==
    thrown.by = "learn" =>
        /\ pc = "raised"
        /\ "rp.clear" \notin invoked
        /\ RpLen(replay_buffer) >= 2
        /\ Elements(batch) \subseteq Elements(replay_buffer.entries)
        /\ "env.step" \in invoked => \E e \in Elements(replay_buffer.entries) : e.a = 0
        /\ IsPrefix(rp_at_call.entries, replay_buffer.entries)
              \/ RpLen(replay_buffer) = replay_buffer.max_len
        /\ save_path = "None"
        /\ summary_writer = "None"
        /\ invoked \cap Persistence = {}

\* learn raised in an Agent that was to save its progress, after two
\* self-test transitions had been collected
C18_Witness ==
    /\ cls = "Agent"
    /\ save_progress
    /\ tensor_board_log
    /\ thrown.by = "learn"
    /\ "env.step" \in invoked
    /\ RpLen(rp_at_call) = 0
    /\ RpLen(replay_buffer) = 2

\* C19: no checkpoint is written before health_check has got through: save_path
\* is None until health_check has completed its learn phase and cleared the
\* buffer; while it is None save_training_progress_callback writes nothing,
\* creates no checkpoints folder and returns False; and it becomes non-None
\* only in health_check, by create_save_folder, and only when
\* tensor_board_log or save_progress is enabled.
C19_NoEarlyCheckpoint ==
    /\ save_path # "None" =>
          /\ cls = "Agent"
          /\ tensor_board_log \/ save_progress
          /\ {"learn", "rp.clear", "create_save_folder"} \subseteq invoked
          /\ thrown.by \notin Phases
          /\ RpLen(replay_buffer) = 0
    /\ (last.op = "save_training_progress_callback" /\ save_path = "None") =>
          /\ last.calls = <<>>
          /\ last.result = "False"
    /\ (last.op = "save_training_progress_callback" /\ last.calls # <<>>) =>
          save_path # "None"

\* the saver was called after a health_check in which learn had raised, on
\* an Agent set to save its progress: it wrote nothing and returned False
C19_Witness ==
    /\ cls = "Agent"
    /\ save_progress
    /\ pc = "raised"
    /\ thrown.by = "learn"
    /\ save_path = "None"
    /\ last.op = "save_training_progress_callback"
    /\ last.result = "False"
    /\ last.calls = <<>>

(***************************************************************************)
(* The priority-update learn callback.  Predictions, targets and errors    *)
(* are counted in units of 1e-7.                                           *)
(***************************************************************************)
Epsilon == 1
Values == {0, 2}
BatchIndices == {0, 1}
Sampled(index) == [index |-> index]

RECURSIVE SeqsUpTo(_, _)
SeqsUpTo(S, n) ==
    IF n = 0 THEN {<<>>}
    ELSE SeqsUpTo(S, n - 1)
         \cup {Append(q, e) : q \in {r \in SeqsUpTo(S, n - 1) : Len(r) = n - 1}, e \in S}

Abs(v) == IF v < 0 THEN 0 - v ELSE v
Min(a, b) == IF a <= b THEN a ELSE b

\* [e.index for e in learning_step.batch]
Indices(b) == [i \in 1..Len(b) |-> b[i].index]

\* Mutant: the sign of the error is kept.
Errors_signed(x, y) == [i \in 1..Min(Len(x), Len(y)) |-> (x[i] - y[i]) + Epsilon]

\* [abs(x - y) + 1e-7 for x, y in zip(learning_step.x, learning_step.y)]
Errors(x, y) == [i \in 1..Min(Len(x), Len(y)) |-> Abs(x[i] - y[i]) + Epsilon]

\* One LearningStep is followed per behaviour: the callback keeps no state
\* from one call to the next.
prioritized_replay_buffer_update_priorities(b, x, y) ==
    /\ pc = "idle"
    /\ last = NoLast
    /\ cls = "Agent"
    /\ IsPrioritized(replay_buffer.type)
    /\ last' = [NoLast EXCEPT
                  !.op = "prioritized_replay_buffer_update_priorities",
                  !.arg = <<b, x, y>>,
                  !.calls = <<Invocation("update_priorities", <<Indices(b), Errors(x, y)>>)>>]
    /\ UNCHANGED <<step_callbacks, progress_callbacks, learning_callbacks, model_wrappers>>
    /\ UNCHANGED <<first_registered, last_registered>>
    /\ UNCHANGED <<cfgvars, hcvars, hpvars>>

\* A constructed Agent whose replay buffer is one of the prioritized ones.
InitLearn ==
    /\ \E rb \in {r \in ReplayBuffers : IsPrioritized(r)} :
          /\ replay_buffer = NewBuffer(rb, 2, IF IsNSteps(rb) THEN 2 ELSE 1)
          /\ Constructed(rb)
          /\ cls = "Agent"
    /\ HyperLinked(HpGamma)
    /\ Idle

NextLearn ==
    \E b \in SeqsUpTo({Sampled(i) : i \in BatchIndices}, MaxBatch),
       x \in SeqsUpTo(Values, MaxBatch), y \in SeqsUpTo(Values, MaxBatch) :
        prioritized_replay_buffer_update_priorities(b, x, y)

SpecLearn == InitLearn /\ [][NextLearn]_vars

\* C21: the priority-update learn callback calls update_priorities exactly
\* once per LearningStep.  Its first argument is the index of every batch
\* entry, in batch order; its second holds, position by position,
\* |x_i - y_i| + 1e-7, which is strictly positive.  When batch, x and y have
\* the same length so have the two lists, and position i of both belongs to
\* the i-th batch entry.
C21_UpdatePriorities ==
    last.op = "prioritized_replay_buffer_update_priorities" =>
        LET b == last.arg[1]
            x == last.arg[2]
            y == last.arg[3]
        IN /\ Len(last.calls) = 1
           /\ last.calls[1].fn = "update_priorities"
           /\ LET indices == last.calls[1].arg[1]
                  errors == last.calls[1].arg[2]
              IN /\ Len(indices) = Len(b)
                 /\ \A i \in 1..Len(b) : indices[i] = b[i].index
                 /\ \A i \in 1..Len(errors) :
                       /\ i <= Len(x) /\ i <= Len(y)
                       /\ errors[i] = (IF x[i] >= y[i] THEN x[i] - y[i] ELSE y[i] - x[i]) + 1
                       /\ errors[i] > 0
                 /\ (Len(b) = Len(x) /\ Len(x) = Len(y)) =>
                       /\ Len(errors) = Len(b)
                       /\ Len(indices) = Len(errors)

\* a batch of two entries with indices 1 and 0, the first predicted below
\* its target, the second exactly on it
C21_Witness ==
    /\ last.op = "prioritized_replay_buffer_update_priorities"
    /\ last.arg = <<(<<Sampled(1), Sampled(0)>>), (<<0, 2>>), (<<2, 2>>)>>
    /\ last.calls[1].arg = <<(<<1, 0>>), (<<3, 1>>)>>

(***************************************************************************)
(* The order of what Agent.__init__ links                                  *)
(***************************************************************************)
Opt(cond, cbk) == IF cond THEN <<cbk>> ELSE <<>>
Cbks(reg) == [i \in 1..Len(reg) |-> reg[i].cbk]
Fns(calls) == [i \in 1..Len(calls) |-> calls[i].fn]
Before(seq, a, b) ==
    \A i, j \in 1..Len(seq) : (seq[i] = a /\ seq[j] = b) => i < j

\* C22: an Agent's registries begin with what its constructor linked, in the
\* order replay buffer, explorer, saver, tensorboard.  So in every
\* configuration the beta-increase step callback runs before the
\* epsilon-decay or noise-reset one, the checkpoint saver runs before the
\* tensorboard episode-reward callback, and build_model applies the
\* noisy-layer wrapper before the tensorboard forward-hook wrapper.
C22_LinkOrder ==
    cls = "Agent" =>
        LET pri == replay_buffer.type \in {"PrioritizedReplayBuffer",
                                           "NStepsPrioritizedReplayBuffer"}
            tb == tensor_board_log
            rnd == explorer = "RandomExplorer"
            noisy == explorer = "NoisyExplorer"
        IN /\ IsPrefix(Opt(pri, "prioritized_replay_buffer_increase_beta")
                       \o Opt(rnd, "random_explorer_decay_epsilon")
                       \o Opt(noisy, "noisy_explorer_reset_noise"),
                       Cbks(step_callbacks))
           /\ IsPrefix(Opt(pri /\ tb, "tensorboard_log_prioritized_replay_buffer_add_beta")
                       \o Opt(rnd /\ tb, "tensorboard_log_random_explorer_add_epsilon")
                       \o Opt(save_progress, "save_training_progress_callback")
                       \o Opt(tb, "tensorboard_log_training_progress"),
                       Cbks(progress_callbacks))
           /\ IsPrefix(Opt(pri, "prioritized_replay_buffer_update_priorities"),
                       Cbks(learning_callbacks))
           /\ IsPrefix(Opt(noisy, "noisy_linear_model_factory") \o Opt(tb, "model_wrapper"),
                       model_wrappers)
           /\ last.op = "call_step_callbacks" =>
                 /\ Before(Cbks(last.invoked), "prioritized_replay_buffer_increase_beta",
                           "random_explorer_decay_epsilon")
                 /\ Before(Cbks(last.invoked), "prioritized_replay_buffer_increase_beta",
                           "noisy_explorer_reset_noise")
           /\ last.op = "call_progress_callbacks" =>
                 Before(Cbks(last.invoked), "save_training_progress_callback",
                        "tensorboard_log_training_progress")
           /\ last.op = "build_model" =>
                 Before(Fns(last.calls), "noisy_linear_model_factory", "model_wrapper")

\* build_model on an Agent with a NoisyExplorer and tensorboard logging: the
\* noisy-layer wrapper was applied to the factory's model, the forward-hook
\* wrapper to the result
C22_Witness ==
    /\ cls = "Agent"
    /\ explorer = "NoisyExplorer"
    /\ tensor_board_log
    /\ save_progress
    /\ replay_buffer.type = "PrioritizedReplayBuffer"
    /\ last.op = "build_model"
    /\ Fns(last.calls) = <<"model_factory", "noisy_linear_model_factory", "model_wrapper">>
    /\ Cbks(step_callbacks) = <<"prioritized_replay_buffer_increase_beta",
                                "noisy_explorer_reset_noise">>

(***************************************************************************)
(* BaseAgent: a label registered again                                     *)
(***************************************************************************)
PositionOf(seq, label) == CHOOSE i \in 1..Len(seq) : seq[i] = label

\* C23: in BaseAgent a callback registered under an existing label takes
\* that label's place: the labels of a registry stay in the order of their
\* first registrations whatever is registered afterwards, the callback now
\* under a label is the one invoked at that place, and so a call invokes the
\* labels in the order of their first registrations.
C23_OverwriteKeepsPosition ==
    cls = "BaseAgent" =>
        \A k \in Kinds :
            /\ LabelsOf(Registry(k)) = first_registered[k]
            /\ (last.op = AddOp(k) /\ last.warning) =>
                  Registry(k)[PositionOf(first_registered[k], last.label)] =
                      Entry(last.label, last.cbk)
            /\ last.op = CallOp(k) =>
                  /\ IsPrefix(last.invoked, Registry(k))
                  /\ IsPrefix(LabelsOf(last.invoked), first_registered[k])
                  /\ Returned => LabelsOf(last.invoked) = first_registered[k]

\* a, then b, were registered with f, a was registered again with g, and the
\* step callbacks then fired: g under a first, f under b second
C23_Witness ==
    /\ cls = "BaseAgent"
    /\ last.op = "call_step_callbacks"
    /\ Returned
    /\ last.invoked = <<Entry("a", "g"), Entry("b", "f")>>
    /\ first_registered["step"] = <<"a", "b">>
    /\ last_registered["step"] = <<Entry("b", "f"), Entry("a", "g")>>

====
